---- MODULE Spec2Model ----
(***************************************************************************)
(* Model of pyze (src/main.rs): a straight-line pipeline that parses the   *)
(* imports of a Python script, filters the standard modules, verifies the  *)
(* rest against the package registry, sorts/dedups/remaps the verified     *)
(* names, writes a Dockerfile and runs `docker build` and `docker run`.    *)
(*                                                                         *)
(* A Rust String is a sequence of one-character strings; Option<T> is a    *)
(* sequence of length 0 (None) or 1 (Some).                                *)
(***************************************************************************)
EXTENDS Integers, Sequences, FiniteSets, TLC

VARIABLES pc, content, config, builtin_stdlibs, imports, idx, modules,
          remapped_modules, dockerfile, buildStatus, runStatus, result, error,
          log, recorded, modulesRef, collected

vars == <<pc, content, config, builtin_stdlibs, imports, idx, modules,
          remapped_modules, dockerfile, buildStatus, runStatus, result, error,
          log, recorded, modulesRef, collected>>

(***************************************************************************)
(* Bounds                                                                  *)
(***************************************************************************)
MaxLines == 2
MaxTokens == 6
MaxLen == 3

(***************************************************************************)
(* Strings                                                                 *)
(***************************************************************************)
None == <<>>
Some(v) == <<v>>

KwImport == <<"i", "m", "p", "o", "r", "t", " ">>
KwFrom == <<"f", "r", "o", "m", " ">>
ImportDelim == <<" ", "i", "m", "p", "o", "r", "t", " ">>

\* char::is_whitespace, restricted to the characters of the model
IsWhitespace(c) == c \in {" ", "\t", "\n"}

RECURSIVE TrimStart(_)
TrimStart(s) ==
    IF s = <<>> THEN s
    ELSE IF IsWhitespace(Head(s)) THEN TrimStart(Tail(s)) ELSE s

RECURSIVE TrimEnd(_)
TrimEnd(s) ==
    IF s = <<>> THEN s
    ELSE IF IsWhitespace(s[Len(s)]) THEN TrimEnd(SubSeq(s, 1, Len(s) - 1)) ELSE s

\* str::trim
Trim(s) == TrimEnd(TrimStart(s))

\* str::starts_with
StartsWith(s, p) == Len(s) >= Len(p) /\ SubSeq(s, 1, Len(p)) = p

\* &s[n..]
SliceFrom(s, n) == SubSeq(s, n + 1, Len(s))

\* 1-based position of the leftmost occurrence of p in s, 0 when there is none
Find(s, p) ==
    LET hits == {i \in 1..(Len(s) - Len(p) + 1) : SubSeq(s, i, i + Len(p) - 1) = p}
    IN IF hits = {} THEN 0 ELSE CHOOSE i \in hits : \A j \in hits : i <= j

\* str::split(pattern).collect(): leftmost, non-overlapping matches
RECURSIVE Split(_, _)
Split(s, p) ==
    LET i == Find(s, p)
    IN IF i = 0 THEN <<s>>
       ELSE <<SubSeq(s, 1, i - 1)>> \o Split(SubSeq(s, i + Len(p), Len(s)), p)

\* str::lines(): pieces ended by "\n"; no empty piece after a final "\n".
\* (A "\r" before the "\n" is dropped too; the texts of the model have none,
\* and trim would remove it anyway.)
RECURSIVE Lines(_)
Lines(s) ==
    IF s = <<>> THEN <<>>
    ELSE LET i == Find(s, <<"\n">>)
         IN IF i = 0 THEN <<s>>
            ELSE <<SubSeq(s, 1, i - 1)>> \o Lines(SubSeq(s, i + 1, Len(s)))

\* [String]::join(sep)
RECURSIVE Join(_, _)
Join(ss, sep) ==
    IF ss = <<>> THEN <<>>
    ELSE IF Len(ss) = 1 THEN ss[1]
    ELSE ss[1] \o sep \o Join(Tail(ss), sep)

RECURSIVE Concat(_)
Concat(ss) == IF ss = <<>> THEN <<>> ELSE Head(ss) \o Concat(Tail(ss))

\* the byte of a character (String's Ord is byte-wise)
Byte(c) ==
    CASE c = "\t" -> 9 [] c = "\n" -> 10 [] c = " " -> 32 [] c = "." -> 46
      [] c = "a" -> 97 [] c = "b" -> 98 [] c = "c" -> 99 [] c = "f" -> 102
      [] c = "i" -> 105 [] c = "m" -> 109 [] c = "o" -> 111 [] c = "p" -> 112
      [] c = "r" -> 114 [] c = "t" -> 116

\* String's Ord: s < t
RECURSIVE StrLess(_, _)
StrLess(s, t) ==
    IF t = <<>> THEN FALSE
    ELSE IF s = <<>> THEN TRUE
    ELSE IF Head(s) = Head(t) THEN StrLess(Tail(s), Tail(t))
    ELSE Byte(Head(s)) < Byte(Head(t))

(***************************************************************************)
(* parse_python_file                                                       *)
(***************************************************************************)
ModuleOnly(m) == [kind |-> "ModuleOnly", module |-> m, member |-> <<>>]
ModuleWithMember(m, o) == [kind |-> "ModuleWithMember", module |-> m, member |-> o]

\* the closure accepting any `from` line with at least one delimiter
ParseLineAtLeastTwoParts(line) ==
    LET trimmed_line == Trim(line)
    IN IF StartsWith(trimmed_line, KwImport)
       THEN Some(ModuleOnly(Trim(SliceFrom(trimmed_line, 7))))
       ELSE IF StartsWith(trimmed_line, KwFrom)
       THEN LET parts == Split(SliceFrom(trimmed_line, 5), ImportDelim)
            IN IF Len(parts) >= 2
               THEN Some(ModuleWithMember(Trim(parts[1]), Trim(parts[2])))
               ELSE None
       ELSE None

\* the filter_map closure: None or Some(import) for one line
ParseLine(line) ==
    LET trimmed_line == Trim(line)
    IN IF StartsWith(trimmed_line, KwImport)
       THEN Some(ModuleOnly(Trim(SliceFrom(trimmed_line, 7))))
       ELSE IF StartsWith(trimmed_line, KwFrom)
       THEN LET parts == Split(SliceFrom(trimmed_line, 5), ImportDelim)
            IN IF Len(parts) = 2
               THEN Some(ModuleWithMember(Trim(parts[1]), Trim(parts[2])))
               ELSE None
       ELSE None

RECURSIVE FilterMapLines(_)
FilterMapLines(ls) ==
    IF ls = <<>> THEN <<>> ELSE ParseLine(Head(ls)) \o FilterMapLines(Tail(ls))

ParseContent(text) == FilterMapLines(Lines(text))

(***************************************************************************)
(* check_package_exists and the verification loop of main                  *)
(***************************************************************************)
\* what one GET of https://pypi.org/pypi/<name>/json can give:
\* Ok(resp) with a success status, Ok(resp) with another status, Err(_)
Outcomes == {"success", "status_error", "network_error"}

IsOk(o) == o # "network_error"
StatusIsSuccess(o) == o = "success"

Query(name, o) == [name |-> name, outcome |-> o]

\* check_package_exists without the fallback to the root package
CheckPackageExistsNoFallback(package, o1, o2) ==
    IF IsOk(o1) /\ StatusIsSuccess(o1)
    THEN [value |-> Some(package), queries |-> <<Query(package, o1)>>]
    ELSE [value |-> None, queries |-> <<Query(package, o1)>>]

\* check_package_exists taking a failed request for an existing package
CheckPackageExistsErrIsFound(package, o1, o2) ==
    IF o1 # "status_error"
    THEN [value |-> Some(package), queries |-> <<Query(package, o1)>>]
    ELSE LET root_package == Head(Split(package, <<".">>))
             qs == <<Query(package, o1), Query(root_package, o2)>>
         IN IF o2 # "status_error"
            THEN [value |-> Some(root_package), queries |-> qs]
            ELSE [value |-> None, queries |-> qs]

\* check_package_exists(package); o1, o2 are the outcomes of its requests.
\* value is the Option<String> returned, queries the requests issued.
CheckPackageExists(package, o1, o2) ==
    IF IsOk(o1) /\ StatusIsSuccess(o1)
    THEN [value |-> Some(package), queries |-> <<Query(package, o1)>>]
    ELSE LET root_package == Head(Split(package, <<".">>))
             qs == <<Query(package, o1), Query(root_package, o2)>>
         IN IF IsOk(o2) /\ StatusIsSuccess(o2)
            THEN [value |-> Some(root_package), queries |-> qs]
            ELSE [value |-> None, queries |-> qs]

\* Vec::contains
Contains(v, x) == \E i \in 1..Len(v) : v[i] = x

\* format!("{}.{}", module, object)
FullName(module, object) == module \o <<".">> \o object

\* the loop body asking a second time for a module-only import
VerifyOneAskTwice(import, stdlibs, os) ==
    IF ~Contains(stdlibs, import.module)
    THEN LET name == IF import.kind = "ModuleOnly" THEN import.module
                     ELSE FullName(import.module, import.member)
             full == CheckPackageExists(name, os[1], os[2])
         IN IF full.value # None THEN full
            ELSE LET alone == CheckPackageExists(import.module, os[3], os[4])
                 IN [value |-> alone.value, queries |-> full.queries \o alone.queries]
    ELSE [value |-> None, queries |-> <<>>]

\* the body of `for import in imports`: the name pushed (if any) and the
\* requests issued for one import, given the outcomes os[1..4] of the requests
VerifyOne(import, stdlibs, os) ==
    IF import.kind = "ModuleOnly"
    THEN IF ~Contains(stdlibs, import.module)
         THEN CheckPackageExists(import.module, os[1], os[2])
         ELSE [value |-> None, queries |-> <<>>]
    ELSE IF ~Contains(stdlibs, import.module)
         THEN LET full == CheckPackageExists(FullName(import.module, import.member), os[1], os[2])
              IN IF full.value # None THEN full
                 ELSE LET alone == CheckPackageExists(import.module, os[3], os[4])
                      IN [value |-> alone.value, queries |-> full.queries \o alone.queries]
         ELSE [value |-> None, queries |-> <<>>]

(***************************************************************************)
(* sort, dedup, remap_modules                                              *)
(***************************************************************************)
RECURSIVE Insert(_, _)
Insert(x, s) ==
    IF s = <<>> THEN <<x>>
    ELSE IF StrLess(x, Head(s)) THEN <<x>> \o s
    ELSE <<Head(s)>> \o Insert(x, Tail(s))

\* Vec::sort (the ascending permutation; equal strings are indistinguishable)
RECURSIVE Sort(_)
Sort(s) == IF s = <<>> THEN <<>> ELSE Insert(Head(s), Sort(Tail(s)))

\* a dedup that drops nothing
DedupNothing(s) == s

\* Vec::dedup: drops an element equal to the one before it
RECURSIVE Dedup(_)
Dedup(s) ==
    IF Len(s) <= 1 THEN s
    ELSE IF s[1] = s[2] THEN Dedup(Tail(s))
    ELSE <<s[1]>> \o Dedup(Tail(s))

\* config.defaults.and_then(|d| d.import_mappings)
ImportMappings(cfg) ==
    IF cfg.defaults = None THEN None ELSE cfg.defaults[1].import_mappings

\* the map closure looking the mapped name up again
RemapOneTwice(module, mappings) ==
    LET once == IF mappings # None /\ module \in DOMAIN mappings[1]
                THEN mappings[1][module] ELSE module
    IN IF mappings # None /\ once \in DOMAIN mappings[1]
       THEN mappings[1][once] ELSE once

\* the map closure of remap_modules
RemapOne(module, mappings) ==
    IF mappings # None /\ module \in DOMAIN mappings[1]
    THEN mappings[1][module]
    ELSE module

remap_modules(mods, mappings) == [i \in 1..Len(mods) |-> RemapOne(mods[i], mappings)]

(***************************************************************************)
(* Inputs                                                                  *)
(***************************************************************************)
A == <<"a">>
B == <<"b">>
C == <<"c">>
AB == <<"a", ".", "b">>

\* lines a script is made of
ScriptLines ==
    { KwImport \o A,
      KwImport \o AB,
      KwFrom \o A \o ImportDelim \o B,
      KwFrom \o AB \o ImportDelim \o C }

\* scripts of at most MaxLines lines, each line ended by "\n"
Scripts ==
    { Concat([i \in 1..Len(ls) |-> ls[i] \o <<"\n">>]) :
        ls \in UNION {[1..n -> ScriptLines] : n \in 0..MaxLines} }

\* pieces of text the parser is run on
Tokens == {KwImport, KwFrom, <<" ">>, <<"\t">>, <<"a">>, <<"\n">>}

\* texts of at most MaxTokens pieces
Texts == { Concat(ts) : ts \in UNION {[1..n -> Tokens] : n \in 0..MaxTokens} }

\* what `python3 -c ...` prints: a sorted list of module names
StdlibChoices == {<<>>, <<A>>}

\* import-mappings tables over the names Keys
MappingsOver(Keys, Vals) == UNION {[S -> Vals] : S \in SUBSET Keys}

ConfigOf(m) == [defaults |-> Some([import_mappings |-> Some(m)])]
NoDefaults == [defaults |-> None]
NoImportMappings == [defaults |-> Some([import_mappings |-> None])]

\* contents of ~/.config/pyze/pyze.yml (NoDefaults also stands for no file)
ConfigChoices == {NoDefaults, NoImportMappings, ConfigOf([k \in {A} |-> C])}

AllConfigs ==
    {NoDefaults, NoImportMappings} \cup {ConfigOf(m) : m \in MappingsOver({A, B}, {A, B, C})}

\* verified module lists remap_modules and sort/dedup are run on
ModuleLists == UNION {[1..n -> {A, AB, B, C}] : n \in 0..MaxLen}

ExitCodes == {0, 1}

(***************************************************************************)
(* The run of main                                                         *)
(***************************************************************************)
Start(p, text, cfg, mods) ==
    /\ pc = p
    /\ content = text
    /\ config = cfg
    /\ builtin_stdlibs = <<>>
    /\ imports = <<>>
    /\ idx = 1
    /\ modules = mods
    /\ remapped_modules = <<>>
    /\ dockerfile = None
    /\ buildStatus = None
    /\ runStatus = None
    /\ result = "running"
    /\ error = "none"
    /\ log = <<>>
    /\ recorded = None
    /\ modulesRef = mods
    /\ collected = <<>>

Init == \E text \in Scripts : Start("load_config", text, NoDefaults, <<>>)

\* a `?` that returns Err, a panic (unwrap/expect), or clap's usage exit:
\* the process ends with a failure and no later step runs
Fail(kind) ==
    /\ pc' = "exit"
    /\ result' = "Err"
    /\ error' = kind
    /\ UNCHANGED <<content, config, builtin_stdlibs, imports, idx, modules,
                   remapped_modules, dockerfile, buildStatus, runStatus,
                   log, recorded, modulesRef, collected>>

LoadConfig ==
    /\ pc = "load_config"
    /\ \/ \E cfg \in ConfigChoices :
            /\ config' = cfg
            /\ pc' = "cli"
            /\ UNCHANGED <<content, builtin_stdlibs, imports, idx, modules,
                           remapped_modules, dockerfile, buildStatus, runStatus,
                           result, error, log, recorded, modulesRef, collected>>
       \/ Fail("config")

CliParse ==
    /\ pc = "cli"
    /\ \/ /\ pc' = "stdlibs"
          /\ UNCHANGED <<content, config, builtin_stdlibs, imports, idx, modules,
                         remapped_modules, dockerfile, buildStatus, runStatus,
                         result, error, log, recorded, modulesRef, collected>>
       \/ Fail("usage")

GetPythonBuiltinsStdlibs ==
    /\ pc = "stdlibs"
    /\ \/ \E names \in StdlibChoices :
            /\ builtin_stdlibs' = names
            /\ pc' = "parse"
            /\ UNCHANGED <<content, config, imports, idx, modules,
                           remapped_modules, dockerfile, buildStatus, runStatus,
                           result, error, log, recorded, modulesRef, collected>>
       \/ Fail("python3")

ParsePythonFile ==
    /\ pc = "parse"
    /\ \/ /\ imports' = ParseContent(content)
          /\ idx' = 1
          /\ pc' = "verify"
          /\ UNCHANGED <<content, config, builtin_stdlibs, modules,
                         remapped_modules, dockerfile, buildStatus, runStatus,
                         result, error, log, recorded, modulesRef, collected>>
       \/ Fail("io")

\* network errors replaced by non-success statuses
Norm(os) == [i \in DOMAIN os |-> IF os[i] = "network_error" THEN "status_error" ELSE os[i]]

VerifyImport ==
    /\ pc = "verify"
    /\ idx <= Len(imports)
    /\ \E os \in [1..4 -> Outcomes] :
         LET r == VerifyOne(imports[idx], builtin_stdlibs, os)
             ref == VerifyOne(imports[idx], builtin_stdlibs, Norm(os))
         IN /\ modules' = modules \o r.value
            /\ log' = r.queries
            /\ recorded' = r.value
            /\ modulesRef' = modulesRef \o ref.value
    /\ idx' = idx + 1
    /\ UNCHANGED <<pc, content, config, builtin_stdlibs, imports,
                   remapped_modules, dockerfile, buildStatus, runStatus,
                   result, error, collected>>

SortDedup ==
    /\ pc = "verify"
    /\ idx > Len(imports)
    /\ collected' = modules
    /\ modules' = Dedup(Sort(modules))
    /\ pc' = "remap"
    /\ log' = <<>>
    /\ recorded' = None
    /\ UNCHANGED <<content, config, builtin_stdlibs, imports, idx,
                   remapped_modules, dockerfile, buildStatus, runStatus,
                   result, error, modulesRef>>

RemapModules ==
    /\ pc = "remap"
    /\ remapped_modules' = remap_modules(modules, ImportMappings(config))
    /\ pc' = "script_name"
    /\ UNCHANGED <<content, config, builtin_stdlibs, imports, idx, modules,
                   dockerfile, buildStatus, runStatus, result, error,
                   log, recorded, modulesRef, collected>>

ScriptName ==
    /\ pc = "script_name"
    /\ \/ /\ pc' = "generate"
          /\ UNCHANGED <<content, config, builtin_stdlibs, imports, idx, modules,
                         remapped_modules, dockerfile, buildStatus, runStatus,
                         result, error, log, recorded, modulesRef, collected>>
       \/ Fail("path")

GenerateDockerfile ==
    /\ pc = "generate"
    /\ \/ /\ dockerfile' = Some([python_version |-> "3.10",
                                 modules |-> Join(remapped_modules, <<" ">>)])
          /\ pc' = "build"
          /\ UNCHANGED <<content, config, builtin_stdlibs, imports, idx, modules,
                         remapped_modules, buildStatus, runStatus,
                         result, error, log, recorded, modulesRef, collected>>
       \/ Fail("io")

DockerBuild ==
    /\ pc = "build"
    /\ \/ \E code \in ExitCodes :
            /\ buildStatus' = Some(code)
            /\ pc' = "run"
            /\ UNCHANGED <<content, config, builtin_stdlibs, imports, idx, modules,
                           remapped_modules, dockerfile, runStatus,
                           result, error, log, recorded, modulesRef, collected>>
       \/ Fail("Failed to build Docker image")

DockerRun ==
    /\ pc = "run"
    /\ \/ \E code \in ExitCodes :
            /\ runStatus' = Some(code)
            /\ pc' = "exit"
            /\ result' = "Ok"
            /\ UNCHANGED <<content, config, builtin_stdlibs, imports, idx, modules,
                           remapped_modules, dockerfile, buildStatus,
                           error, log, recorded, modulesRef, collected>>
       \/ Fail("Failed to run Docker container")

Next ==
    \/ LoadConfig
    \/ CliParse
    \/ GetPythonBuiltinsStdlibs
    \/ ParsePythonFile
    \/ VerifyImport
    \/ SortDedup
    \/ RemapModules
    \/ ScriptName
    \/ GenerateDockerfile
    \/ DockerBuild
    \/ DockerRun

Spec == Init /\ [][Next]_vars

\* parse_python_file alone, on every text of Texts
InitParse == \E text \in Texts : Start("parse", text, NoDefaults, <<>>)
NextParse == ParsePythonFile
SpecParse == InitParse /\ [][NextParse]_vars

\* sort, dedup and remap_modules alone, on every list and every mapping table
InitRemap == \E mods \in ModuleLists, cfg \in AllConfigs : Start("verify", <<>>, cfg, mods)
NextRemap == SortDedup \/ RemapModules
SpecRemap == InitRemap /\ [][NextRemap]_vars

\* remap_modules alone, on every list (sorted or not) and every mapping table
InitRemapOnly == \E mods \in ModuleLists, cfg \in AllConfigs : Start("remap", <<>>, cfg, mods)
NextRemapOnly == RemapModules
SpecRemapOnly == InitRemapOnly /\ [][NextRemapOnly]_vars

(***************************************************************************)
(* Properties                                                              *)
(***************************************************************************)
\* the loop has just handled imports[idx - 1]
Processed == pc = "verify" /\ idx > 1
Last == imports[idx - 1]
NonStandard(import) == \A i \in 1..Len(builtin_stdlibs) : builtin_stdlibs[i] # import.module

\* the registry confirmed name during the requests of the last import
Confirmed(name) == \E i \in 1..Len(log) : log[i].name = name /\ log[i].outcome = "success"

\* the text of name before its first "."
RootOf(name) ==
    LET dots == {i \in 1..Len(name) : name[i] = "."}
    IN IF dots = {} THEN name
       ELSE SubSeq(name, 1, (CHOOSE i \in dots : \A j \in dots : i <= j) - 1)

\* the requests of the last import went through the names cands in order and
\* stopped at the first success, whose name is what was recorded
FirstSuccessOf(cands) ==
    /\ Len(log) >= 1
    /\ Len(log) <= Len(cands)
    /\ \A i \in 1..Len(log) : log[i].name = cands[i]
    /\ \A i \in 1..(Len(log) - 1) : log[i].outcome # "success"
    /\ IF log[Len(log)].outcome = "success"
       THEN recorded = Some(log[Len(log)].name)
       ELSE Len(log) = Len(cands) /\ recorded = None

\* s is ascending without equal neighbours
StrictlySorted(s) == \A i \in 1..(Len(s) - 1) : StrLess(s[i], s[i + 1])

Range(s) == {s[i] : i \in 1..Len(s)}

\* C1 (as claimed): when `docker build` was spawned and exited with a non-zero
\* status, `docker run` is never spawned.
C1_NoRunAfterFailedBuild ==
    (buildStatus # None /\ buildStatus[1] # 0) => runStatus = None

\* C2 (as claimed): when `docker run` exits with a non-zero status, main
\* returns an error instead of Ok.
C2_FailedRunIsError ==
    (runStatus # None /\ runStatus[1] # 0) => result = "Err"

\* C3 (as claimed): no name of the standard-module set is ever in the
\* collected dependency list.
C3_NoStandardModuleCollected ==
    \A i \in 1..Len(modules) : \A j \in 1..Len(builtin_stdlibs) :
        modules[i] # builtin_stdlibs[j]

\* C4 (as claimed): a non-standard `from M import N` records M.N if the
\* registry confirms M.N, otherwise M if the registry confirms M, otherwise
\* nothing, and never another name.
C4_Original ==
    (Processed /\ Last.kind = "ModuleWithMember" /\ NonStandard(Last)) =>
        recorded = IF Confirmed(Last.module \o <<".">> \o Last.member)
                   THEN Some(Last.module \o <<".">> \o Last.member)
                   ELSE IF Confirmed(Last.module) THEN Some(Last.module)
                   ELSE None

\* C4 (amended): a non-standard `from M import N` asks the registry for M.N,
\* the root of M, M and the root of M again, stops at the first success and
\* records the name of that request; nothing is recorded when none succeeds.
C4_FromImportRecordsFirstSuccess ==
    (Processed /\ Last.kind = "ModuleWithMember" /\ NonStandard(Last)) =>
        FirstSuccessOf(<<Last.module \o <<".">> \o Last.member, RootOf(Last.module),
                         Last.module, RootOf(Last.module)>>)

C4_Witness ==
    /\ Processed /\ Last.kind = "ModuleWithMember" /\ NonStandard(Last)
    /\ Last.module = AB
    /\ Len(log) = 2
    /\ recorded = Some(A)

\* C5 (as claimed): a non-standard `import X` asks the registry for X and
\* records X exactly when the registry confirms X; no other name is recorded.
C5_Original ==
    (Processed /\ Last.kind = "ModuleOnly" /\ NonStandard(Last)) =>
        /\ log[1].name = Last.module
        /\ recorded = IF Confirmed(Last.module) THEN Some(Last.module) ELSE None

\* C5 (amended): a non-standard `import X` asks the registry for X and records
\* X if that succeeds; otherwise it asks for the root of X (X before its first
\* dot) and records the root if that succeeds; otherwise nothing is recorded.
C5_ImportRecordsNameOrRoot ==
    (Processed /\ Last.kind = "ModuleOnly" /\ NonStandard(Last)) =>
        FirstSuccessOf(<<Last.module, RootOf(Last.module)>>)

C5_Witness ==
    /\ Processed /\ Last.kind = "ModuleOnly" /\ NonStandard(Last)
    /\ Last.module = AB
    /\ log[1].outcome # "success"
    /\ recorded = Some(A)

\* C6: a network error of a registry request counts as "not found": the
\* dependency list equals the one obtained when every network error is
\* replaced by a non-success status, and the run goes on after the error.
C6_NetworkErrorIsNotFound ==
    /\ pc = "verify" => modules = modulesRef
    /\ pc \in {"remap", "script_name", "generate", "build", "run"} => collected = modulesRef
    /\ (Processed /\ \E i \in 1..Len(log) : log[i].outcome = "network_error") =>
           result = "running"

C6_Witness ==
    /\ Processed
    /\ \E i \in 1..Len(log) : log[i].outcome = "network_error"
    /\ log[1].outcome = "network_error"
    /\ recorded # None

\* C7 (as claimed): the module list given to the build file, after sort, dedup
\* and remapping with any mapping table, is sorted and has no duplicates.
C7_Original ==
    pc = "script_name" => StrictlySorted(remapped_modules)

\* C7 (amended): the verified names are sorted and duplicate-free after sort
\* and dedup, before remapping; the list given to the build file is sorted and
\* duplicate-free when the mapping table is empty or absent, and verified
\* modules ["b","a","a"] then give ["a","b"].
C7_SortedDedupedBeforeRemap ==
    /\ pc \in {"remap", "script_name"} =>
          /\ StrictlySorted(modules)
          /\ Range(modules) = Range(collected)
    /\ (pc = "script_name" /\ (ImportMappings(config) = None
                               \/ DOMAIN ImportMappings(config)[1] = {})) =>
          /\ StrictlySorted(remapped_modules)
          /\ Range(remapped_modules) = Range(collected)
          /\ collected = <<B, A, A>> => remapped_modules = <<A, B>>

C7_Witness ==
    /\ pc = "script_name"
    /\ collected = <<B, A, A>>
    /\ ImportMappings(config) = None
    /\ remapped_modules = <<A, B>>

\* C8: remap_modules keeps the length of the list; entry i of the result is
\* the mapped value of entry i when the table has it as a key, looked up once,
\* and entry i itself otherwise; an empty or absent table gives the list back.
C8_RemapIsPointwiseLookup ==
    pc = "script_name" =>
        LET m == ImportMappings(config)
        IN /\ Len(remapped_modules) = Len(modules)
           /\ \A i \in 1..Len(modules) :
                 remapped_modules[i] =
                     IF m # None /\ \E k \in DOMAIN m[1] : k = modules[i]
                     THEN m[1][modules[i]]
                     ELSE modules[i]
           /\ (m = None \/ DOMAIN m[1] = {}) => remapped_modules = modules
           /\ (m = Some([k \in {A} |-> C]) /\ modules = <<A, B>>) =>
                 remapped_modules = <<C, B>>

C8_Witness ==
    /\ pc = "script_name"
    /\ ImportMappings(config) = Some([k \in {A, B} |-> IF k = A THEN B ELSE C])
    /\ modules = <<B, A, A>>
    /\ remapped_modules = <<C, B, B>>

\* the declaration the rule of C9 gives for one line: none or one
Stripped(s) ==
    LET keep == {i \in 1..Len(s) : ~IsWhitespace(s[i])}
    IN IF keep = {} THEN <<>>
       ELSE SubSeq(s, CHOOSE i \in keep : \A j \in keep : i <= j,
                      CHOOSE i \in keep : \A j \in keep : i >= j)

DelimAt(s, i) == i + 7 <= Len(s) /\ SubSeq(s, i, i + 7) = ImportDelim

DeclarationOf(line) ==
    LET t == Stripped(line)
    IN IF Len(t) >= 7 /\ SubSeq(t, 1, 7) = KwImport
       THEN <<ModuleOnly(Stripped(SubSeq(t, 8, Len(t))))>>
       ELSE IF Len(t) >= 5 /\ SubSeq(t, 1, 5) = KwFrom
       THEN LET rest == SubSeq(t, 6, Len(t))
                at == {i \in 1..Len(rest) : DelimAt(rest, i)}
            IN IF at = {} THEN <<>>
               ELSE LET first == CHOOSE i \in at : \A j \in at : i <= j
                    IN IF \E j \in at : j >= first + 8 THEN <<>>
                       ELSE <<ModuleWithMember(Stripped(SubSeq(rest, 1, first - 1)),
                                               Stripped(SubSeq(rest, first + 8, Len(rest))))>>
       ELSE <<>>

RECURSIVE DeclarationsOf(_)
DeclarationsOf(ls) ==
    IF ls = <<>> THEN <<>>
    ELSE DeclarationOf(Head(ls)) \o DeclarationsOf(Tail(ls))

\* C9: parse_python_file gives, in source order and keeping duplicates, at
\* most one declaration per line: module-only for a trimmed line starting with
\* "import ", module-with-member for a trimmed "from " line with exactly one
\* " import " delimiter, nothing for any other line.
C9_ParseFollowsLineRule ==
    (pc = "verify" /\ idx = 1) => imports = DeclarationsOf(Lines(content))

C9_Witness ==
    /\ pc = "verify" /\ idx = 1
    /\ Len(Lines(content)) = 2
    /\ imports = <<ModuleOnly(<<"a">>), ModuleOnly(<<"a">>)>>

\* C10 (as claimed): every non-standard import declaration issues at most two
\* registry requests.
C10_Original ==
    (Processed /\ NonStandard(Last)) => Len(log) <= 2

\* C10 (amended): imports are verified one at a time in source order; a
\* non-standard module-only import issues at most two registry requests and a
\* non-standard module-with-member import at most four.
C10_RequestsPerImport ==
    (Processed /\ NonStandard(Last)) =>
        /\ Len(log) <= (IF Last.kind = "ModuleOnly" THEN 2 ELSE 4)
        /\ \A i \in 1..Len(log) :
              log[i].name \in {Last.module, RootOf(Last.module),
                               Last.module \o <<".">> \o Last.member}

C10_Witness ==
    /\ Processed /\ NonStandard(Last)
    /\ Last.kind = "ModuleWithMember"
    /\ Len(log) = 4

====
